---- MODULE Spec2Model ----
(***************************************************************************)
(* Layout core of clinic-bubbleprof's visualizer: Scale (selection of the  *)
(* scale factor) and NodeAllocation (1D allocation of leaves on a          *)
(* three-sided perimeter and its projection to 2D).                        *)
(*                                                                         *)
(* Numbers are exact rationals <<n, d>> (d > 0, lowest terms).  A 2D point *)
(* is <<"xy", x, y>> when its coordinates are rational, and                *)
(* <<"pal", from, to, d>> ("the point at length d from `from` on the line  *)
(* towards `to`") when the direction is oblique and the coordinates are    *)
(* irrational.                                                             *)
(***************************************************************************)
EXTENDS Integers, Sequences, FiniteSets, TLC

VARIABLES
    \* ---- Scale ----
    scaleInput,     \* what calculateScaleFactor() reads off the layout
    scaleFactor,    \* Scale.scaleFactor
    decisiveWeight, \* Scale.decisiveWeight
    scalePc,        \* "init" | "done"
    \* ---- NodeAllocation ----
    layout,         \* settings, scale.finalSvgHeight, positioning.order, stems, layoutNodes order
    placementMode,  \* argument of process()
    pc,             \* "new" | "constructed" | "units" | "offsets" | "leaves2D" | "midPoints2D" | "done" | "failed"
    failure,        \* what was thrown, and at which node
    leaves,         \* this.leaves, in Map (insertion) order
    midPoints,      \* this.midPoints, in Map (insertion) order
    roots,          \* this.roots, as the sequence of <<key, node>> set() calls collapsed by key
    segments,       \* this.segments
    total1DSpaceAvailable,
    position,       \* this.nodeToPosition: node -> [units, offset, x/y point, validated]
    hierarchyLevels,\* depth (1-based index = depth + 1) -> sequence of Clumps
    rawLeafPosition \* history: each leaf's position as calculate2DLeafCoordinates left it

scaleVars == <<scaleInput, scaleFactor, decisiveWeight, scalePc>>
allocVars == <<layout, placementMode, pc, failure, leaves, midPoints, roots, segments,
               total1DSpaceAvailable, position, hierarchyLevels, rawLeafPosition>>
vars == <<scaleVars, allocVars>>

(***************************************************************************)
(* Exact rational arithmetic (JavaScript numbers, without rounding).       *)
(***************************************************************************)
Abs(i) == IF i < 0 THEN -i ELSE i

RECURSIVE Gcd(_, _)
Gcd(a, b) == IF b = 0 THEN a ELSE Gcd(b, a % b)

Norm(n, d) ==
    LET s == IF d < 0 THEN -1 ELSE 1
        g == Gcd(Abs(n), Abs(d))
    IN  <<(s * n) \div g, (s * d) \div g>>

R(i) == <<i, 1>>
Zero == R(0)
One == R(1)
RAdd(a, b) == Norm(a[1] * b[2] + b[1] * a[2], a[2] * b[2])
RSub(a, b) == Norm(a[1] * b[2] - b[1] * a[2], a[2] * b[2])
RMul(a, b) == Norm(a[1] * b[1], a[2] * b[2])
RDiv(a, b) == Norm(a[1] * b[2], a[2] * b[1])
RLess(a, b) == a[1] * b[2] < b[1] * a[2]
RLeq(a, b) == a[1] * b[2] <= b[1] * a[2]
RMax(a, b) == IF RLess(a, b) THEN b ELSE a
RHalf(a) == RDiv(a, R(2))

RECURSIVE RSum(_)
RSum(s) == IF s = <<>> THEN Zero ELSE RAdd(s[1], RSum(Tail(s)))

(***************************************************************************)
(* Scale.  scale.js is not among the sources; the candidate constraints,   *)
(* the `longest` law and the selection rule follow the specification, the  *)
(* case where the absolutes exceed the height budget follows the test      *)
(* 'demagnifies when absolutes exceed available space'.                    *)
(***************************************************************************)
MaxAbsolute == 4
MaxScalable == 2
SvgHeights == {2, 4}
OtherFactors == {<<1, 2>>, <<1, 1>>, <<3, 1>>}
DemagnifiedFactors == {<<1, 5>>, <<1, 2>>}

\* Categories in priority order: shortest > longest > diameter clamp > quantiles.
Categories ==
    <<"shortest", "longest", "diameter clamp",
      "q25 4-3-5 triangle", "q50 1-1-sqrt(2) triangle", "q75 3-4-5 triangle">>
OtherCategories == {Categories[i] : i \in {1, 3, 4, 5, 6}}
CategoryClass(c) == IF c = "shortest" THEN 1 ELSE IF c = "longest" THEN 2
                    ELSE IF c = "diameter clamp" THEN 3 ELSE 4

\* heightBudget: 1.5 x the configured svgHeight.
HeightBudget(svgHeight) == RMul(<<3, 2>>, R(svgHeight))

\* The `longest` law, with no provision for absolutes that exceed the budget.
ScaleWeightLawOnly(category, available, scalableToContain, absoluteToContain, demagnified) ==
    [category |-> category,
     available |-> available,
     scalableToContain |-> scalableToContain,
     absoluteToContain |-> absoluteToContain,
     scaleFactor |-> RDiv(RSub(available, absoluteToContain), scalableToContain)]

\* The law with the absolute portion left out of the subtraction.
ScaleWeightNoAbsolute(category, available, scalableToContain, absoluteToContain, demagnified) ==
    [category |-> category,
     available |-> available,
     scalableToContain |-> scalableToContain,
     absoluteToContain |-> absoluteToContain,
     scaleFactor |-> IF RLess(absoluteToContain, available)
                     THEN RDiv(available, scalableToContain)
                     ELSE demagnified]

\* A candidate that must contain scalableToContain (scaled) plus absoluteToContain
\* (unscaled) in `available`.  When the absolutes alone use up the space the
\* tree is demagnified by a positive factor the specification does not give.
ScaleWeight(category, available, scalableToContain, absoluteToContain, demagnified) ==
    [category |-> category,
     available |-> available,
     scalableToContain |-> scalableToContain,
     absoluteToContain |-> absoluteToContain,
     scaleFactor |-> IF RLess(absoluteToContain, available)
                     THEN RDiv(RSub(available, absoluteToContain), scalableToContain)
                     ELSE demagnified]

\* The six candidates, in priority order.
Candidates(in) ==
    [i \in 1..Len(Categories) |->
        IF Categories[i] = "longest"
        THEN ScaleWeight("longest", HeightBudget(in.svgHeight), R(in.scalable),
                         R(in.absolute), in.demagnified)
        ELSE [category |-> Categories[i], scaleFactor |-> in.others[Categories[i]]]]

\* A fold in which a later candidate with the same factor replaces the earlier one.
RECURSIVE MostRestrictiveLastWins(_, _)
MostRestrictiveLastWins(best, rest) ==
    IF rest = <<>> THEN best
    ELSE MostRestrictiveLastWins(
            IF RLeq(rest[1].scaleFactor, best.scaleFactor) THEN rest[1] ELSE best,
            Tail(rest))

\* Minimum-by-scaleFactor fold; the earlier candidate keeps a tie.
RECURSIVE MostRestrictive(_, _)
MostRestrictive(best, rest) ==
    IF rest = <<>> THEN best
    ELSE MostRestrictive(
            IF RLess(rest[1].scaleFactor, best.scaleFactor) THEN rest[1] ELSE best,
            Tail(rest))

ScaleInputs ==
    [svgHeight : SvgHeights,
     absolute : 0..MaxAbsolute,
     scalable : 1..MaxScalable,
     demagnified : DemagnifiedFactors,
     others : [OtherCategories -> OtherFactors]]

NoWeight == [category |-> "none", scaleFactor |-> One]

ScaleIdle ==
    /\ scaleInput = [svgHeight |-> 2, absolute |-> 0, scalable |-> 1,
                     demagnified |-> One, others |-> [c \in OtherCategories |-> One]]
    /\ scaleFactor = One
    /\ decisiveWeight = NoWeight
    /\ scalePc = "idle"

InitScale ==
    /\ scaleInput \in ScaleInputs
    /\ scaleFactor = One
    /\ decisiveWeight = NoWeight
    /\ scalePc = "init"

\* Scale.calculateScaleFactor()
calculateScaleFactor ==
    /\ scalePc \in {"init", "done"}
    /\ LET cands == Candidates(scaleInput)
           win == MostRestrictive(cands[1], Tail(cands))
       IN  /\ decisiveWeight' = win
           /\ scaleFactor' = win.scaleFactor
    /\ scalePc' = "done"
    /\ UNCHANGED <<scaleInput, allocVars>>

(***************************************************************************)
(* The data tree and the external collaborators of NodeAllocation          *)
(* (Node, LayoutNode, Stem, LineCoordinates, validateStat).                *)
(*                                                                         *)
(*        1                                                                *)
(*       / \          leaves: 2, 4, 6     (node.children.length = 0)       *)
(*      2   3         midpoints: 1, 3, 5                                   *)
(*       / \                                                               *)
(*      4   5                                                              *)
(*          |                                                              *)
(*          6                                                              *)
(***************************************************************************)
ParentIds == <<0, 1, 1, 3, 3, 5>>
Nodes == 1..Len(ParentIds)
ParentId(n) == ParentIds[n]
Children(n) == {c \in Nodes : ParentId(c) = n}
HasChildren(n) == Children(n) # {}

\* stem.getScaled(scale).ownBetween / .ownDiameter, per node
OwnBetweens == <<1, 2, 3, 1, 2, 1>>
OwnDiameters == <<2, 2, 4, 2, 3, 2>>
OwnBetween(n) == R(OwnBetweens[n])
OwnDiameter(n) == R(OwnDiameters[n])

\* stem.ancestors.ids: the ordered ancestor ids, topmost first
RECURSIVE AncestorIds(_)
AncestorIds(n) == IF ParentId(n) = 0 THEN <<>> ELSE Append(AncestorIds(ParentId(n)), ParentId(n))

\* stem.leaves.ids: the descendant leaves of a node
RECURSIVE Descendants(_)
Descendants(n) == Children(n) \cup UNION {Descendants(c) : c \in Children(n)}
StemLeafIds(n) == {l \in Descendants(n) : ~HasChildren(l)}

\* layoutNode.id, the key NodeAllocation uses for a LayoutNode
LayoutNodeId(n) == n

\* validateStat / validateNumber: a finite number (and > 0 with aboveZero)
IsFinite(r) == r[2] # 0
ValidStat(r, aboveZero) == IsFinite(r) /\ (aboveZero => RLess(Zero, r))

\* ---- points and LineCoordinates ----
XY(x, y) == <<"xy", x, y>>
IsXY(p) == p[1] = "xy"
Sign(r) == IF r[1] < 0 THEN R(-1) ELSE IF r[1] > 0 THEN One ELSE Zero

\* LineCoordinates({x1, y1, x2, y2}).length, for the axis-parallel border lines
LineLength(line) ==
    LET dx == RSub(line.x2, line.x1)
        dy == RSub(line.y2, line.y1)
    IN  IF dx = Zero THEN RMul(Sign(dy), dy) ELSE RMul(Sign(dx), dx)

\* LineCoordinates({x1, y1, x2, y2}).pointAtLength(d) with (x1, y1) = from and
\* (x2, y2) = to: rational on an axis-parallel line, a "pal" term otherwise.
PointAtLength(from, to, d) ==
    IF IsXY(from) /\ IsXY(to)
    THEN LET dx == RSub(to[2], from[2])
             dy == RSub(to[3], from[3])
         IN  IF dx = Zero /\ dy # Zero
             THEN XY(from[2], RAdd(from[3], RMul(Sign(dy), d)))
             ELSE IF dy = Zero /\ dx # Zero
             THEN XY(RAdd(from[2], RMul(Sign(dx), d)), from[3])
             ELSE <<"pal", from, to, d>>
    ELSE <<"pal", from, to, d>>

\* ---- sequences ----
SeqToSet(s) == {s[i] : i \in 1..Len(s)}
Member(s, x) == \E i \in 1..Len(s) : s[i] = x
RECURSIVE Ascending(_)
Ascending(S) ==
    IF S = {} THEN <<>>
    ELSE LET m == CHOOSE x \in S : \A y \in S : x <= y
         IN  <<m>> \o Ascending(S \ {m})
Reverse(s) == [i \in 1..Len(s) |-> s[Len(s) + 1 - i]]
Orderings(S) == {s \in [1..Cardinality(S) -> S] : \A i, j \in 1..Cardinality(S) : s[i] = s[j] => i = j}
RECURSIVE SelectSeq2(_, _)
SelectSeq2(s, S) ==
    IF s = <<>> THEN <<>>
    ELSE (IF s[1] \in S THEN <<s[1]>> ELSE <<>>) \o SelectSeq2(Tail(s), S)

(***************************************************************************)
(* NodeAllocation: construction.                                           *)
(***************************************************************************)
MaxLength == 2

Geometries ==
    {[svgWidth |-> 8, svgDistanceFromEdge |-> 0, finalSvgHeight |-> 6],
     [svgWidth |-> 8, svgDistanceFromEdge |-> 1, finalSvgHeight |-> 10]}

\* Map.set(key, value) on a Map kept as its sequence of <<key, value>> entries
MapSet(map, key, value) ==
    IF \E i \in 1..Len(map) : map[i][1] = key
    THEN [i \in 1..Len(map) |-> IF map[i][1] = key THEN <<key, value>> ELSE map[i]]
    ELSE Append(map, <<key, value>>)

\* constructor, first loop: nodes without children are leaves, the others midpoints
LeavesOf(nodes) == SelectSeq2(nodes, {n \in Nodes : ~HasChildren(n)})
MidPointsOf(nodes) == SelectSeq2(nodes, {n \in Nodes : HasChildren(n)})
InitialPosition == [units |-> Zero, offset |-> <<>>, xy |-> XY(Zero, Zero), validated |-> FALSE]

\* the second loop with every root stored under one and the same key
RECURSIVE RootsOfOneKey(_, _, _)
RootsOfOneKey(map, rest, mids) ==
    IF rest = <<>> THEN map
    ELSE RootsOfOneKey(IF ParentId(rest[1]) \notin mids
                       THEN MapSet(map, 0, rest[1]) ELSE map,
                       Tail(rest), mids)

\* constructor, second loop: midpoints whose parent is no midpoint of the subset
RECURSIVE RootsOf(_, _, _)
RootsOf(map, rest, mids) ==
    IF rest = <<>> THEN map
    ELSE RootsOf(IF ParentId(rest[1]) \notin mids
                 THEN MapSet(map, LayoutNodeId(rest[1]), rest[1]) ELSE map,
                 Tail(rest), mids)

\* NodeAllocation.threeSided
RECURSIVE LargestDiameter(_)
LargestDiameter(rootEntries) ==
    IF rootEntries = <<>> THEN Zero
    ELSE RMax(LargestDiameter(Tail(rootEntries)), OwnDiameter(rootEntries[1][2]))

threeSided(lay, rootEntries) ==
    LET edge == R(lay.svgDistanceFromEdge)
        height == R(lay.finalSvgHeight)
        topOffset == RAdd(edge, RMax(RDiv(height, R(5)), LargestDiameter(rootEntries)))
        top == topOffset
        bottom == RSub(height, edge)
        left == edge
        right == RSub(R(lay.svgWidth), edge)
    IN  <<[label |-> "LHS", x1 |-> left, y1 |-> top, x2 |-> left, y2 |-> bottom],
          [label |-> "BOT", x1 |-> left, y1 |-> bottom, x2 |-> right, y2 |-> bottom],
          [label |-> "RHS", x1 |-> right, y1 |-> bottom, x2 |-> right, y2 |-> top]>>

\* LinearSpaceSegment constructor
LinearSpaceSegment(label, begin, line) ==
    [label |-> label, line |-> line, begin |-> begin,
     end |-> RAdd(begin, LineLength(line)), blocks |-> <<>>]

\* NodeAllocation.initializeSegments: the segments laid end to end
RECURSIVE initializeSegments(_, _)
initializeSegments(segs, coordinates) ==
    IF coordinates = <<>> THEN segs
    ELSE LET begin == IF segs = <<>> THEN Zero ELSE segs[Len(segs)].end
         IN  initializeSegments(
                Append(segs, LinearSpaceSegment(coordinates[1].label, begin, coordinates[1])),
                Tail(coordinates))

Total1DSpace(segs) == RSum([i \in 1..Len(segs) |-> LineLength(segs[i].line)])

AllocIdle ==
    /\ layout = [nodes |-> <<>>, order |-> <<>>, len |-> <<>>,
                 svgWidth |-> 0, svgDistanceFromEdge |-> 0, finalSvgHeight |-> 0]
    /\ placementMode = "none"
    /\ pc = "idle"
    /\ failure = [kind |-> "none", at |-> 0, during |-> "none"]
    /\ leaves = <<>>
    /\ midPoints = <<>>
    /\ roots = <<>>
    /\ segments = <<>>
    /\ total1DSpaceAvailable = Zero
    /\ position = <<>>
    /\ hierarchyLevels = <<>>
    /\ rawLeafPosition = <<>>

\* new NodeAllocation(layout, layoutNodes): the layout handed in, and the state
\* the constructor leaves.
InitAlloc ==
    \E subset \in (SUBSET Nodes) \ {{}} :
    \E nodes \in {Ascending(subset), Reverse(Ascending(subset))} :
    \E order \in Orderings({n \in subset : ~HasChildren(n)}) :
    \E len \in [{n \in subset : ~HasChildren(n)} -> 1..MaxLength] :
    \E g \in Geometries :
        /\ layout = [nodes |-> nodes, order |-> order, len |-> len,
                     svgWidth |-> g.svgWidth,
                     svgDistanceFromEdge |-> g.svgDistanceFromEdge,
                     finalSvgHeight |-> g.finalSvgHeight]
        /\ placementMode = "none"
        /\ pc = "constructed"
        /\ failure = [kind |-> "none", at |-> 0, during |-> "none"]
        /\ leaves = LeavesOf(nodes)
        /\ midPoints = MidPointsOf(nodes)
        /\ roots = RootsOf(<<>>, MidPointsOf(nodes), SeqToSet(MidPointsOf(nodes)))
        /\ segments = initializeSegments(<<>>, threeSided(g, roots))
        /\ total1DSpaceAvailable = Total1DSpace(segments)
        /\ position = [n \in subset |-> InitialPosition]
        /\ hierarchyLevels = <<>>
        /\ rawLeafPosition = [n \in {m \in subset : ~HasChildren(m)} |-> XY(Zero, Zero)]

(***************************************************************************)
(* process(), phase 1: convertTotalStemLengthsToUnits.                     *)
(* hierarchyLevels[depth + 1] is the HierarchyLevel of `depth`; a Clump    *)
(* names its parent clump and child clumps by node (0: no parent clump).   *)
(***************************************************************************)
PlacementModes == {"LENGTH_CONSTRAINED", "SPIDER"}

HierarchyLevel(depth) == [depth |-> depth, clumps |-> <<>>, longestLeafLengthSum |-> <<>>]

Clump(node, parentClump, longestLeafLength) ==
    [node |-> node, parentClump |-> parentClump, childClumps |-> <<>>,
     longestLeafLength |-> longestLeafLength, units |-> <<>>]

\* hierarchyLevels.get(depth).clumps.get(node): its index in the level, 0 if none
ClumpAt(levels, depth, node) ==
    IF depth < 0 \/ depth >= Len(levels) THEN 0
    ELSE LET cs == levels[depth + 1].clumps
         IN  IF \E i \in 1..Len(cs) : cs[i].node = node
             THEN CHOOSE i \in 1..Len(cs) : cs[i].node = node
             ELSE 0

\* lines 94-96, 122-124
EnsureLevel(levels, depth) ==
    IF depth < Len(levels) THEN levels ELSE Append(levels, HierarchyLevel(depth))

\* lines 105-111 and 126-132: a new Clump, linked to the clump of its parent
\* node in the previous level when there is one
AddClump(levels, depth, node, length) ==
    LET p == IF ClumpAt(levels, depth - 1, ParentId(node)) # 0 THEN ParentId(node) ELSE 0
        own == levels[depth + 1]
        placed == [levels EXCEPT ![depth + 1] =
                      [own EXCEPT !.clumps = Append(own.clumps, Clump(node, p, length))]]
    IN  IF p = 0 THEN placed
        ELSE LET prev == levels[depth]
                 i == ClumpAt(levels, depth - 1, p)
                 pc0 == prev.clumps[i]
                 linked == [pc0 EXCEPT !.childClumps = Append(pc0.childClumps, node)]
             IN  [placed EXCEPT ![depth] =
                     [prev EXCEPT !.clumps = [prev.clumps EXCEPT ![i] = linked]]]

\* lines 115-118: the longest leaf of an existing clump
Lengthen(levels, depth, node, length) ==
    LET own == levels[depth + 1]
        i == ClumpAt(levels, depth, node)
        c == own.clumps[i]
    IN  IF c.longestLeafLength = 0 \/ length > c.longestLeafLength
        THEN [levels EXCEPT ![depth + 1] =
                 [own EXCEPT !.clumps = [own.clumps EXCEPT ![i] =
                     [c EXCEPT !.longestLeafLength = length]]]]
        ELSE levels

\* lines 92-119: the clumps of a leaf's ancestors, depth by depth
RECURSIVE IncludeAncestors(_, _, _, _, _)
IncludeAncestors(levels, ancestors, depth, length, mids) ==
    IF depth >= Len(ancestors) THEN levels
    ELSE LET lv == EnsureLevel(levels, depth)
             ancestorId == ancestors[depth + 1]
         IN  IF ancestorId \notin mids
             THEN IncludeAncestors(lv, ancestors, depth + 1, length, mids)
             ELSE IF ClumpAt(lv, depth, ancestorId) = 0
             THEN IncludeAncestors(AddClump(lv, depth, ancestorId, length),
                                   ancestors, depth + 1, length, mids)
             ELSE IncludeAncestors(Lengthen(lv, depth, ancestorId, length),
                                   ancestors, depth + 1, length, mids)

\* lines 85-133, one leaf
IncludeLeaf(levels, leaf, length, mids) ==
    LET ids == AncestorIds(leaf)
        ancestors == IF Len(ids) > 0 THEN ids ELSE <<ParentId(leaf)>>
        withAncestors == IncludeAncestors(levels, ancestors, 0, length, mids)
        leafDepth == Len(ancestors)
    IN  AddClump(EnsureLevel(withAncestors, leafDepth), leafDepth, leaf, length)

RECURSIVE IndexClumps(_, _, _, _)
IndexClumps(levels, rest, len, mids) ==
    IF rest = <<>> THEN levels
    ELSE IndexClumps(IncludeLeaf(levels, rest[1], len[rest[1]], mids), Tail(rest), len, mids)

\* HierarchyLevel.sumLongestLeafLengths
RECURSIVE SumLongest(_)
SumLongest(clumps) ==
    IF clumps = <<>> THEN 0 ELSE clumps[1].longestLeafLength + SumLongest(Tail(clumps))

\* Clump.getTotalChildrenLongestLeafLength, for the clump of `node` at `depth`
TotalChildrenLongestLeafLength(levels, depth, node) ==
    LET c == levels[depth + 1].clumps[ClumpAt(levels, depth, node)]
        below == levels[depth + 2].clumps
    IN  SumLongest([i \in 1..Len(c.childClumps) |->
                       below[ClumpAt(levels, depth + 1, c.childClumps[i])]])

\* line 142 without the parent's units: the share among the siblings only
ClumpUnitsOfSiblings(levels, depth, c) ==
    Norm(c.longestLeafLength,
         IF c.parentClump # 0
         THEN TotalChildrenLongestLeafLength(levels, depth - 1, c.parentClump)
         ELSE SumLongest(levels[depth + 1].clumps))

\* lines 140-142
ClumpUnits(levels, depth, c) ==
    LET parentUnits ==
            IF c.parentClump # 0
            THEN levels[depth].clumps[ClumpAt(levels, depth - 1, c.parentClump)].units
            ELSE One
        proportionFactor ==
            IF c.parentClump # 0
            THEN TotalChildrenLongestLeafLength(levels, depth - 1, c.parentClump)
            ELSE SumLongest(levels[depth + 1].clumps)
    IN  RMul(parentUnits, Norm(c.longestLeafLength, proportionFactor))

\* lines 136-147
RECURSIVE AssignUnits(_, _)
AssignUnits(levels, depth) ==
    IF depth >= Len(levels) THEN levels
    ELSE LET level == levels[depth + 1]
             clumps == [i \in 1..Len(level.clumps) |->
                           [level.clumps[i] EXCEPT !.units = ClumpUnits(levels, depth, level.clumps[i])]]
         IN  AssignUnits([levels EXCEPT ![depth + 1] =
                             [level EXCEPT !.longestLeafLengthSum = SumLongest(level.clumps),
                                           !.clumps = clumps]],
                         depth + 1)

AllClumps(levels) ==
    UNION {{levels[d].clumps[i] : i \in 1..Len(levels[d].clumps)} : d \in 1..Len(levels)}

convertTotalStemLengthsToUnits ==
    /\ pc = "constructed"
    /\ \E mode \in PlacementModes : placementMode' = mode
    /\ LET levels == AssignUnits(IndexClumps(<<>>, leaves, layout.len, SeqToSet(midPoints)), 0)
           clumps == AllClumps(levels)
       IN  /\ hierarchyLevels' = levels
           /\ position' = [n \in DOMAIN position |->
                 IF \E c \in clumps : c.node = n
                 THEN [position[n] EXCEPT !.units = (CHOOSE c \in clumps : c.node = n).units]
                 ELSE position[n]]
           /\ IF \A c \in clumps : ValidStat(c.units, FALSE)
              THEN pc' = "units" /\ failure' = failure
              ELSE /\ pc' = "failed"
                   /\ failure' = [kind |-> "ValidationError",
                                  at |-> (CHOOSE c \in clumps : ~ValidStat(c.units, FALSE)).node,
                                  during |-> "convertTotalStemLengthsToUnits"]
    /\ UNCHANGED <<layout, leaves, midPoints, roots, segments, total1DSpaceAvailable,
                   rawLeafPosition, scaleVars>>

(***************************************************************************)
(* process(), phase 2: calculate1DLinearOffsets.                           *)
(***************************************************************************)
\* layout.positioning.order.indexOf(id)
IndexOf(order, id) ==
    IF Member(order, id) THEN (CHOOSE i \in 1..Len(order) : order[i] = id) - 1 ELSE -1

\* [...this.leaves.values()].sort(intoOrder): a stable sort on indexOf
RECURSIVE InsertInOrder(_, _, _)
InsertInOrder(sorted, leaf, order) ==
    IF sorted = <<>> THEN <<leaf>>
    ELSE IF IndexOf(order, leaf) < IndexOf(order, sorted[1])
    THEN <<leaf>> \o sorted
    ELSE <<sorted[1]>> \o InsertInOrder(Tail(sorted), leaf, order)

RECURSIVE ArrangedLeaves(_, _)
ArrangedLeaves(ls, order) ==
    IF ls = <<>> THEN <<>>
    ELSE InsertInOrder(ArrangedLeaves(SubSeq(ls, 1, Len(ls) - 1), order), ls[Len(ls)], order)

SpaceBlock(node, begin, length) ==
    [node |-> node, begin |-> begin, end |-> RAdd(begin, length),
     center |-> RAdd(begin, RHalf(length))]

\* LinearSpaceSegment.contains1DPoint
contains1DPoint(segment, offset) ==
    RLess(segment.begin, offset) /\ RLess(offset, segment.end)

\* this.segments.find(segment => segment.contains1DPoint(center)): index, 0 for undefined
FindSegment(segs, center) ==
    IF \E i \in 1..Len(segs) : contains1DPoint(segs[i], center)
    THEN CHOOSE i \in 1..Len(segs) :
            /\ contains1DPoint(segs[i], center)
            /\ \A j \in 1..(i - 1) : ~contains1DPoint(segs[j], center)
    ELSE 0

\* lines 154-162; thrownAt is the leaf at which undefined.blocks was read
RECURSIVE PlaceBlocks(_, _, _, _, _)
PlaceBlocks(segs, pos, rest, begin, total) ==
    IF rest = <<>> THEN [segments |-> segs, position |-> pos, thrownAt |-> 0]
    ELSE LET leaf == rest[1]
             block == SpaceBlock(leaf, begin, RMul(pos[leaf].units, total))
             pos1 == [pos EXCEPT ![leaf].offset = block.center]
             found == FindSegment(segs, block.center)
         IN  IF found = 0
             THEN [segments |-> segs, position |-> pos1, thrownAt |-> leaf]
             ELSE PlaceBlocks([segs EXCEPT ![found].blocks = Append(@, block)],
                              pos1, Tail(rest), block.end, total)

calculate1DLinearOffsets ==
    /\ pc = "units"
    /\ LET r == PlaceBlocks(segments, position, ArrangedLeaves(leaves, layout.order),
                            segments[1].begin, total1DSpaceAvailable)
       IN  /\ segments' = r.segments
           /\ position' = r.position
           /\ IF r.thrownAt = 0
              THEN pc' = "offsets" /\ failure' = failure
              ELSE pc' = "failed" /\ failure' = [kind |-> "TypeError", at |-> r.thrownAt,
                                                  during |-> "calculate1DLinearOffsets"]
    /\ UNCHANGED <<layout, placementMode, leaves, midPoints, roots, total1DSpaceAvailable,
                   hierarchyLevels, rawLeafPosition, scaleVars>>

(***************************************************************************)
(* process(), phase 3: calculate2DLeafCoordinates.                         *)
(***************************************************************************)
\* LinearSpaceSegment.translate1DPointTo2D
translate1DPointTo2D(segment, relativeOffset) ==
    PointAtLength(XY(segment.line.x1, segment.line.y1),
                  XY(segment.line.x2, segment.line.y2), relativeOffset)

AllBlocks(segs) ==
    UNION {{<<i, segs[i].blocks[j]>> : j \in 1..Len(segs[i].blocks)} : i \in 1..Len(segs)}

\* lines 165-174: every block's node gets validated x and y
LeafCoordinates(segs, pos) ==
    [n \in DOMAIN pos |->
        IF \E e \in AllBlocks(segs) : e[2].node = n
        THEN LET e == CHOOSE e \in AllBlocks(segs) : e[2].node = n
             IN  [pos[n] EXCEPT
                     !.xy = translate1DPointTo2D(segs[e[1]], RSub(e[2].center, segs[e[1]].begin)),
                     !.validated = TRUE]
        ELSE pos[n]]

calculate2DLeafCoordinates ==
    /\ pc = "offsets"
    /\ position' = LeafCoordinates(segments, position)
    /\ rawLeafPosition' = [n \in DOMAIN rawLeafPosition |-> position'[n].xy]
    /\ pc' = "leaves2D"
    /\ UNCHANGED <<layout, placementMode, failure, leaves, midPoints, roots, segments,
                   total1DSpaceAvailable, hierarchyLevels, scaleVars>>

(***************************************************************************)
(* process(), phase 4: calculate2DMidpointCoordinates.                     *)
(***************************************************************************)
\* NodeAllocation.getRootPosition
getRootPosition(lay, nodeDiameter) ==
    XY(RHalf(R(lay.svgWidth)), RAdd(R(lay.svgDistanceFromEdge), RHalf(nodeDiameter)))

\* lines 210-211: stem.leaves.ids.filter(leafId => this.leaves.has(leafId))
OwnLeavesInSubset(midPoint, ls) == SelectSeq2(Ascending(StemLeafIds(midPoint)), SeqToSet(ls))

\* lines 212-221: the sum of the leaves' positions, divided by their number
LeafCenter(pos, leafIds) ==
    XY(RDiv(RSum([i \in 1..Len(leafIds) |-> pos[leafIds[i]].xy[2]]), R(Len(leafIds))),
       RDiv(RSum([i \in 1..Len(leafIds) |-> pos[leafIds[i]].xy[3]]), R(Len(leafIds))))

\* the distance a node is placed at from its parent: both radii and its own line
StemDistance(parentDiameter, node) ==
    RAdd(RAdd(RHalf(parentDiameter), OwnBetween(node)), RHalf(OwnDiameter(node)))

\* lines 238-241: leafCenter.x + parentPosition.x / 2 (the division binds first)
SpiderCenter(leafCenter, parentXY) ==
    XY(RAdd(leafCenter[2], RHalf(parentXY[2])), RAdd(leafCenter[3], RHalf(parentXY[3])))

\* lines 223-245: the position of a midpoint whose parent is in the subset
PlacedMidPoint(pos, midPoint, leafCenter, mode) ==
    LET parentXY == pos[ParentId(midPoint)].xy
    IN  IF mode = "LENGTH_CONSTRAINED"
        THEN PointAtLength(parentXY, leafCenter,
                           StemDistance(OwnDiameter(ParentId(midPoint)), midPoint))
        ELSE SpiderCenter(leafCenter, parentXY)

\* lines 197-246, in the order of this.midPoints; thrownAt is the midpoint whose
\* 'leafCenter division' validation failed
RECURSIVE MidPointCoordinates(_, _, _, _, _)
MidPointCoordinates(pos, rest, ls, lay, mode) ==
    IF rest = <<>> THEN [position |-> pos, thrownAt |-> 0]
    ELSE LET midPoint == rest[1]
             own == OwnLeavesInSubset(midPoint, ls)
         IN  IF ParentId(midPoint) \notin DOMAIN pos
             THEN MidPointCoordinates(
                     [pos EXCEPT ![midPoint].xy = getRootPosition(lay, OwnDiameter(midPoint)),
                                 ![midPoint].validated = TRUE],
                     Tail(rest), ls, lay, mode)
             ELSE IF ~ValidStat(R(Len(own)), TRUE)
             THEN [position |-> pos, thrownAt |-> midPoint]
             ELSE MidPointCoordinates(
                     [pos EXCEPT ![midPoint].xy =
                                     PlacedMidPoint(pos, midPoint, LeafCenter(pos, own), mode),
                                 ![midPoint].validated = TRUE],
                     Tail(rest), ls, lay, mode)

calculate2DMidpointCoordinates ==
    /\ pc = "leaves2D"
    /\ LET r == MidPointCoordinates(position, midPoints, leaves, layout, placementMode)
       IN  /\ position' = r.position
           /\ IF r.thrownAt # 0
              THEN pc' = "failed" /\ failure' = [kind |-> "ValidationError", at |-> r.thrownAt,
                                                  during |-> "calculate2DMidpointCoordinates"]
              ELSE /\ failure' = failure
                   /\ pc' = IF placementMode = "LENGTH_CONSTRAINED" THEN "midPoints2D" ELSE "done"
    /\ UNCHANGED <<layout, placementMode, leaves, midPoints, roots, segments,
                   total1DSpaceAvailable, hierarchyLevels, rawLeafPosition, scaleVars>>

(***************************************************************************)
(* process(), phase 5: constrain2DLeafCoordinates (LENGTH_CONSTRAINED).    *)
(***************************************************************************)
\* lines 181-190 without the parent's radius in the length
ConstrainedLeafNoParentRadius(pos, leaf, lay) ==
    LET inSubset == ParentId(leaf) \in DOMAIN pos
        parentXY == IF inSubset THEN pos[ParentId(leaf)].xy ELSE getRootPosition(lay, Zero)
    IN  PointAtLength(parentXY, pos[leaf].xy, StemDistance(Zero, leaf))

\* lines 181-190
ConstrainedLeaf(pos, leaf, lay) ==
    LET inSubset == ParentId(leaf) \in DOMAIN pos
        parentDiameter == IF inSubset THEN OwnDiameter(ParentId(leaf)) ELSE Zero
        parentXY == IF inSubset THEN pos[ParentId(leaf)].xy
                    ELSE getRootPosition(lay, parentDiameter)
    IN  PointAtLength(parentXY, pos[leaf].xy, StemDistance(parentDiameter, leaf))

\* lines 177-194
RECURSIVE ConstrainLeaves(_, _, _)
ConstrainLeaves(pos, rest, lay) ==
    IF rest = <<>> THEN pos
    ELSE ConstrainLeaves([pos EXCEPT ![rest[1]].xy = ConstrainedLeaf(pos, rest[1], lay),
                                     ![rest[1]].validated = TRUE],
                         Tail(rest), lay)

constrain2DLeafCoordinates ==
    /\ pc = "midPoints2D"
    /\ placementMode = "LENGTH_CONSTRAINED"
    /\ position' = ConstrainLeaves(position, leaves, layout)
    /\ pc' = "done"
    /\ UNCHANGED <<layout, placementMode, failure, leaves, midPoints, roots, segments,
                   total1DSpaceAvailable, hierarchyLevels, rawLeafPosition, scaleVars>>

Init == InitAlloc /\ ScaleIdle
Next ==
    \/ convertTotalStemLengthsToUnits
    \/ calculate1DLinearOffsets
    \/ calculate2DLeafCoordinates
    \/ calculate2DMidpointCoordinates
    \/ constrain2DLeafCoordinates
Spec == Init /\ [][Next]_vars

InitS == InitScale /\ AllocIdle
NextS == calculateScaleFactor
SpecScale == InitS /\ [][NextS]_vars

(***************************************************************************)
(* Properties of Scale (checked under SpecScale).                          *)
(***************************************************************************)
LongestLaw ==
    RDiv(RSub(HeightBudget(scaleInput.svgHeight), R(scaleInput.absolute)),
         R(scaleInput.scalable))
AbsolutesFit == RLess(R(scaleInput.absolute), HeightBudget(scaleInput.svgHeight))

C2_DecisiveIsMostRestrictive ==
    scalePc = "done" =>
        LET cands == Candidates(scaleInput)
        IN  /\ \E i \in 1..Len(Categories) : cands[i] = decisiveWeight
            /\ scaleFactor = decisiveWeight.scaleFactor
            /\ \A j \in 1..Len(Categories) :
                  /\ RLeq(scaleFactor, cands[j].scaleFactor)
                  /\ cands[j].scaleFactor = scaleFactor =>
                        CategoryClass(decisiveWeight.category) <= CategoryClass(cands[j].category)

\* C2 witness: two candidates of different priority share the smallest factor.
C2_Witness ==
    /\ scalePc = "done"
    /\ \E j \in 1..Len(Categories) :
          /\ Candidates(scaleInput)[j].scaleFactor = scaleFactor
          /\ CategoryClass(Candidates(scaleInput)[j].category) >
                CategoryClass(decisiveWeight.category)
          /\ decisiveWeight.category = "longest"

\* C3 as stated: whenever `longest` is decisive, scaleFactor equals
\* (heightBudget - absolutePortion) / scalablePortion.
C3_LongestLawAlways ==
    (scalePc = "done" /\ decisiveWeight.category = "longest") => scaleFactor = LongestLaw

\* C3 amended: the law holds whenever `longest` is decisive and the absolute
\* portion is smaller than the height budget.
C3_LongestLawWhenAbsolutesFit ==
    (scalePc = "done" /\ decisiveWeight.category = "longest" /\ AbsolutesFit)
        => scaleFactor = LongestLaw

\* C3 witness: `longest` decided with a non-zero absolute portion that fits.
C3_Witness ==
    /\ scalePc = "done"
    /\ decisiveWeight.category = "longest"
    /\ AbsolutesFit
    /\ scaleInput.absolute > 0

(***************************************************************************)
(* Properties of NodeAllocation (checked under Spec).                      *)
(***************************************************************************)
Subset == DOMAIN position
LeafSet == SeqToSet(leaves)
MidPointSet == SeqToSet(midPoints)
LeafUnitsSum == RSum([i \in 1..Len(leaves) |-> position[leaves[i]].units])

\* convertTotalStemLengthsToUnits() has returned
UnitsAssigned ==
    \/ pc \in {"units", "offsets", "leaves2D", "midPoints2D", "done"}
    \/ pc = "failed" /\ failure.during # "convertTotalStemLengthsToUnits"
\* calculate1DLinearOffsets() has run, to its end or to the statement that threw
OffsetsRun == pc \in {"offsets", "leaves2D", "midPoints2D", "done", "failed"}
\* process() is over, by returning or by throwing
ProcessOver == pc \in {"done", "failed"}

BlocksOf(leaf) == {e \in AllBlocks(segments) : e[2].node = leaf}

SqDist(p, q) ==
    RAdd(RMul(RSub(p[2], q[2]), RSub(p[2], q[2])), RMul(RSub(p[3], q[3]), RSub(p[3], q[3])))
Cross(p, from, to) ==
    RSub(RMul(RSub(p[2], from[2]), RSub(to[3], from[3])),
         RMul(RSub(p[3], from[3]), RSub(to[2], from[2])))
Dot(p, from, to) ==
    RAdd(RMul(RSub(p[2], from[2]), RSub(to[2], from[2])),
         RMul(RSub(p[3], from[3]), RSub(to[3], from[3])))

\* p is the point at distance d from `from` on the ray from `from` through `to`
OnRayAtDistance(p, from, to, d) ==
    IF IsXY(p)
    THEN /\ IsXY(from) /\ IsXY(to) /\ to # from
         /\ SqDist(p, from) = RMul(d, d)
         /\ Cross(p, from, to) = Zero
         /\ RLeq(Zero, Dot(p, from, to))
    ELSE p = <<"pal", from, to, d>>

\* C4 as stated, for unit assignments that fill the perimeter exactly: once
\* calculate1DLinearOffsets() has run, every leaf's block is in the blocks of
\* exactly one segment.
C4_EveryLeafInExactlyOneSegment ==
    (OffsetsRun /\ LeafUnitsSum = One) =>
        \A leaf \in LeafSet : Cardinality(BlocksOf(leaf)) = 1

ClumpsWithChildren == {c \in AllClumps(hierarchyLevels) : c.childClumps # <<>>}
ChildUnits(c) ==
    [i \in 1..Len(c.childClumps) |->
        (CHOOSE k \in AllClumps(hierarchyLevels) : k.node = c.childClumps[i]).units]

\* C5 as stated: after convertTotalStemLengthsToUnits() the units of the child
\* clumps of every clump sum to 1.
C5_ChildUnitsSumToOne ==
    UnitsAssigned => \A c \in ClumpsWithChildren : RSum(ChildUnits(c)) = One

\* C5 amended: the units of the child clumps of every clump sum to the units of
\* that clump (their parent's share of the space).
C5_ChildUnitsSumToParentUnits ==
    UnitsAssigned => \A c \in ClumpsWithChildren : RSum(ChildUnits(c)) = c.units

\* C5 witness: a clump below the top level with two child clumps and a share
\* smaller than the whole space.
C5_Witness ==
    /\ UnitsAssigned
    /\ \E c \in ClumpsWithChildren :
          /\ Len(c.childClumps) = 2
          /\ c.parentClump # 0
          /\ RLess(c.units, One)

\* C6: when process() is over (it returned or threw), every leaf of the subset
\* holds x and y that passed validateStat and are finite; stated for unit
\* assignments that fill the perimeter exactly.
C6_LeavesValidatedWhenProcessOver ==
    (ProcessOver /\ LeafUnitsSum = One) =>
        \A leaf \in LeafSet :
            /\ position[leaf].validated
            /\ IsXY(position[leaf].xy) => IsFinite(position[leaf].xy[2]) /\ IsFinite(position[leaf].xy[3])

\* C7: after process() in LENGTH_CONSTRAINED mode every leaf whose parent is in
\* the subset lies on the line from its parent's final position through its own
\* phase-3 position, at distance parent radius + ownBetween + own radius.
C7_LeafOnRayFromParent ==
    (pc = "done" /\ placementMode = "LENGTH_CONSTRAINED") =>
        \A leaf \in LeafSet :
            ParentId(leaf) \in Subset =>
                OnRayAtDistance(position[leaf].xy, position[ParentId(leaf)].xy,
                                rawLeafPosition[leaf],
                                RAdd(RAdd(RHalf(OwnDiameter(ParentId(leaf))), OwnBetween(leaf)),
                                     RHalf(OwnDiameter(leaf))))

\* C7 witness: a re-anchored leaf with rational coordinates under a midpoint
\* that is itself placed from its parent.
C7_Witness ==
    /\ pc = "done"
    /\ placementMode = "LENGTH_CONSTRAINED"
    /\ \E leaf \in LeafSet :
          /\ ParentId(leaf) \in Subset
          /\ IsXY(position[leaf].xy)
          /\ position[leaf].xy # rawLeafPosition[leaf]
    /\ \E leaf \in LeafSet :
          /\ ParentId(leaf) \in Subset
          /\ ParentId(ParentId(leaf)) \in Subset
          /\ ~IsXY(position[leaf].xy)

\* C8 as stated, for the midpoints whose coordinates are rational: after
\* process() in LENGTH_CONSTRAINED mode every midpoint whose parent is in the
\* subset is at distance parent radius + ownBetween + own radius from its
\* parent's final position.
C8_MidPointAtStemDistanceFromParent ==
    (pc = "done" /\ placementMode = "LENGTH_CONSTRAINED") =>
        \A m \in MidPointSet :
            (ParentId(m) \in Subset /\ IsXY(position[m].xy) /\ IsXY(position[ParentId(m)].xy)) =>
                LET d == RAdd(RAdd(RHalf(OwnDiameter(ParentId(m))), OwnBetween(m)),
                              RHalf(OwnDiameter(m)))
                IN  SqDist(position[m].xy, position[ParentId(m)].xy) = RMul(d, d)

\* the Map of midpoints lists every parent before its children
ParentsFirst ==
    \A i, j \in 1..Len(midPoints) : midPoints[i] = ParentId(midPoints[j]) => i < j

\* C9 as stated, for a Map that lists parents first: in SPIDER mode a midpoint
\* whose parent is in the subset is placed at the average of its leaf centroid
\* and its parent's position, x = (leafCenter.x + parent.x) / 2, y likewise.
C9_SpiderIsUnweightedBlend ==
    (pc = "done" /\ placementMode = "SPIDER" /\ ParentsFirst) =>
        \A m \in MidPointSet :
            ParentId(m) \in Subset =>
                LET c == LeafCenter(position, OwnLeavesInSubset(m, leaves))
                    parent == position[ParentId(m)].xy
                IN  position[m].xy = XY(RHalf(RAdd(c[2], parent[2])), RHalf(RAdd(c[3], parent[3])))

\* midpoints whose parent is in the subset and none of whose descendant leaves is
LeaflessMidPoints ==
    {m \in MidPointSet : ParentId(m) \in Subset /\ StemLeafIds(m) \cap LeafSet = {}}

\* C10 as stated, for unit assignments that fill the perimeter exactly: with
\* such a midpoint in the subset process() ends by a validation error raised at
\* such a midpoint, and x and y of these midpoints are never assigned.
C10_LeaflessMidPointFailsValidation ==
    (ProcessOver /\ LeaflessMidPoints # {} /\ LeafUnitsSum = One) =>
        /\ pc = "failed"
        /\ failure.kind = "ValidationError"
        /\ failure.at \in LeaflessMidPoints
        /\ \A m \in LeaflessMidPoints : position[m].xy = XY(Zero, Zero) /\ ~position[m].validated

\* midpoints whose parent is absent from the active subset
ParentlessMidPoints == {m \in MidPointSet : ParentId(m) \notin Subset}
\* the largest own diameter among a set of nodes, 0 for no node
LargestOwnDiameter(S) ==
    IF S = {} THEN Zero
    ELSE OwnDiameter(CHOOSE m \in S : \A o \in S : RLeq(OwnDiameter(o), OwnDiameter(m)))
\* the top border of the perimeter: where the LHS segment's line starts
TopBorder == segments[1].line.y1

OffsetsDone ==
    \/ pc \in {"offsets", "leaves2D", "midPoints2D", "done"}
    \/ pc = "failed" /\ failure.during = "calculate2DMidpointCoordinates"
\* the leaves whose block calculate1DLinearOffsets() has built
LeavesWithBlock == {leaf \in LeafSet : position[leaf].offset # <<>>}

\* C12: with at least one leaf in the subset, after
\* convertTotalStemLengthsToUnits() the units of all leaves sum to 1; no block
\* center calculate1DLinearOffsets() computes lies beyond the last segment; and
\* once it has returned the blocks start at 0 and end at total1DSpaceAvailable.
C12_LeafUnitsSumToOne ==
    leaves # <<>> =>
        /\ UnitsAssigned => LeafUnitsSum = One
        /\ OffsetsRun =>
              \A leaf \in LeavesWithBlock :
                  RLeq(position[leaf].offset, segments[Len(segments)].end)
        /\ OffsetsDone =>
              /\ \E e \in AllBlocks(segments) : e[2].begin = Zero
              /\ \E e \in AllBlocks(segments) : e[2].end = total1DSpaceAvailable

====
